---- MODULE Spec2Model ----
(***************************************************************************)
(* Model of api/hardware/hardware.go (sample store, ingestion and          *)
(* interpolation) and of api/handler.go (range tabulation).                *)
(*                                                                         *)
(* Conventions.                                                            *)
(*   - A *float64 field is a set with at most one element: {} is the nil   *)
(*     pointer, {v} a pointer to v.                                        *)
(*   - Slices are functions over 0..n-1, as in the source.                 *)
(*   - Timestamps are integer milliseconds (time.UnixMilli / UnixMilli).   *)
(*   - The float64 arithmetic of the blend is not evaluated: a blended     *)
(*     value is kept as the operands the code feeds to the formula, and    *)
(*     NaN is produced where the code divides 0 by 0 or feeds an infinity  *)
(*     to math.Cos.                                                        *)
(***************************************************************************)
EXTENDS Integers, Sequences, FiniteSets, TLC

VARIABLES
    hardware,     \* the package variable: hardwareId -> (timestamp -> Sample)
    walk,         \* PopulateSamples: position of the directory walk
    ingested,     \* history: the rows PopulateSamples has stored so far
    call,         \* the last InterpolateSample call and everything it did
    handler       \* Handle: the request being served and the loop's state

vars == <<hardware, walk, ingested, call, handler>>

\* ------------------------------------------------------------------ bounds
\* Stored timestamps are multiples of 1000 ms from -1000 to MaxK * 1000.
MaxK == 4
\* Largest number of rows read from one file.
MaxRows == 2
\* Loop iterations of Handle that are followed.
MaxIter == 4
\* Largest "count" of a request.
MaxCount == 3

TimeSet == {k * 1000 : k \in -1 .. MaxK}
AtSet == {t + d : t \in TimeSet, d \in {-300, 0, 500}}

\* ------------------------------------------------------------------ Sample
\* The fields of Sample that carry a `file` tag, in declaration order (the
\* first two of the nine), and the tag of each.
Fields == <<"Temperature", "PeakVelocityX">>
FileTag == [Temperature |-> "temperature.csv", PeakVelocityX |-> "peak_velocity_x.csv"]
FieldSet == {Fields[i] : i \in 1 .. Len(Fields)}
NumField == Len(Fields)

\* &Sample{}: every pointer field nil.
EmptySample == [Time |-> 0, Temperature |-> {}, PeakVelocityX |-> {}]

IsNil(pointer) == pointer = {}
Deref(pointer) == CHOOSE v \in pointer : TRUE

\* Sample.SetValueByDataFile: the first field whose tag is the file name is
\* set; ok is false when no field carries the tag.
SetValueByDataFile(sample, targetFileName, value) ==
    IF \E f \in FieldSet : FileTag[f] = targetFileName
    THEN LET f == CHOOSE g \in FieldSet : FileTag[g] = targetFileName
         IN  [ok |-> TRUE, sample |-> [sample EXCEPT ![f] = {value}]]
    ELSE [ok |-> FALSE, sample |-> sample]

\* SampleCount: the sum of the per-device sample counts.
RECURSIVE SumCounts(_, _)
SumCounts(hw, ids) ==
    IF ids = {} THEN 0
    ELSE LET id == CHOOSE x \in ids : TRUE
         IN  Cardinality(DOMAIN hw[id]) + SumCounts(hw, ids \ {id})
SampleCount == SumCounts(hardware, DOMAIN hardware)

HasSamples(hardwareId) == hardwareId \in DOMAIN hardware

EmptyMap == [x \in {} |-> {}]

\* ------------------------------------------------------- InterpolateSample
\* sort.Slice over the keys of the device's map.
RECURSIVE SortAscending(_, _)
SortAscending(keys, index) ==
    IF keys = {} THEN EmptyMap
    ELSE LET least == CHOOSE k \in keys : \A other \in keys : k <= other
         IN  (index :> least) @@ SortAscending(keys \ {least}, index + 1)
SortedTimestamps(hardwareId) == SortAscending(DOMAIN hardware[hardwareId], 0)

\* The loop over consecutive gaps, then int64(sum / float64(sampleCount)).
\* The sum is not negative, so the conversion truncates as \div does.
RECURSIVE SumOfIntervals(_, _, _)
SumOfIntervals(timestamps, index, sampleCount) ==
    IF index < sampleCount - 1
    THEN (timestamps[index + 1] - timestamps[index])
         + SumOfIntervals(timestamps, index + 1, sampleCount)
    ELSE 0
\* Faulty variant: the mean gap, divided by the number of gaps.
AverageIntervalByGaps(timestamps, sampleCount) ==
    IF sampleCount = 1 THEN 0
    ELSE SumOfIntervals(timestamps, 0, sampleCount) \div (sampleCount - 1)

\* averageInterval: the sum over the sample count, truncated.
AverageInterval(timestamps, sampleCount) ==
    SumOfIntervals(timestamps, 0, sampleCount) \div sampleCount

\* Faulty variant: the bounds themselves are rejected too.
DensityRejectsInclusive(timestamps, sampleCount, averageInterval, atTimestamp) ==
    \/ atTimestamp <= timestamps[0] + averageInterval
    \/ atTimestamp >= timestamps[sampleCount - 1] - averageInterval

\* Faulty variant: only the lower bound is checked.
DensityRejectsLowerOnly(timestamps, sampleCount, averageInterval, atTimestamp) ==
    atTimestamp < timestamps[0] + averageInterval

\* The condition of the `if` that returns the "no interpolable" error.
DensityRejects(timestamps, sampleCount, averageInterval, atTimestamp) ==
    \/ atTimestamp < timestamps[0] + averageInterval
    \/ atTimestamp > timestamps[sampleCount - 1] - averageInterval

\* sort.Search(sampleCount, timestamps[index] >= atTimestamp): the binary
\* search of the standard library on [i, j).
RECURSIVE Search(_, _, _, _)
Search(timestamps, atTimestamp, i, j) ==
    IF i < j
    THEN LET h == (i + j) \div 2
         IN  IF ~(timestamps[h] >= atTimestamp)
             THEN Search(timestamps, atTimestamp, h + 1, j)
             ELSE Search(timestamps, atTimestamp, i, h)
    ELSE i

\* One scan: what it selected, every index at which it read timestamps[],
\* and whether a read was out of range (a run-time panic).
ScanResult(index, reads, outOfRange) ==
    [index |-> index, reads |-> reads, outOfRange |-> outOfRange]

\* The backward scan of one field, from leftSampleIndex.
RECURSIVE LeftScan(_, _, _, _, _, _)
LeftScan(samples, timestamps, sampleCount, field, leftSampleIndex, reads) ==
    IF leftSampleIndex \notin 0 .. sampleCount - 1
    THEN ScanResult(leftSampleIndex, reads \cup {leftSampleIndex}, TRUE)
    ELSE LET leftSample == samples[timestamps[leftSampleIndex]]
             next == leftSampleIndex - 1
         IN  IF ~IsNil(leftSample[field]) \/ next <= 0
             THEN ScanResult(leftSampleIndex, reads \cup {leftSampleIndex}, FALSE)
             ELSE LeftScan(samples, timestamps, sampleCount, field, next,
                           reads \cup {leftSampleIndex})

\* The forward scan of one field, from rightSampleIndex.
RECURSIVE RightScan(_, _, _, _, _, _)
RightScan(samples, timestamps, sampleCount, field, rightSampleIndex, reads) ==
    IF rightSampleIndex \notin 0 .. sampleCount - 1
    THEN ScanResult(rightSampleIndex, reads \cup {rightSampleIndex}, TRUE)
    ELSE LET rightSample == samples[timestamps[rightSampleIndex]]
             next == rightSampleIndex + 1
         IN  IF ~IsNil(rightSample[field]) \/ next >= sampleCount - 1
             THEN ScanResult(rightSampleIndex, reads \cup {rightSampleIndex}, FALSE)
             ELSE RightScan(samples, timestamps, sampleCount, field, next,
                            reads \cup {rightSampleIndex})

\* The blend of one field.  timestampInterval is atTimestamp divided by the
\* SUM of the two timestamps; with a sum of 0 the quotient is NaN or an
\* infinity, math.Cos of either is NaN, and so is the value.  Otherwise the
\* value is leftSampleValue*(1-interval) + rightSampleValue*interval with
\* interval = 0.5*(1 - cos(pi * num/den)), kept as its operands.
Blend(atTimestamp, leftTimestamp, rightTimestamp, leftSampleValue, rightSampleValue) ==
    IF leftTimestamp + rightTimestamp = 0
    THEN [kind |-> "NaN"]
    ELSE [kind |-> "blend", left |-> leftSampleValue, right |-> rightSampleValue,
          num |-> atTimestamp, den |-> leftTimestamp + rightTimestamp]

\* What one InterpolateSample call did.  outcome is "no_hardware" or
\* "density" (an error is returned), "ok" (a Sample is returned), "nil_panic"
\* (reflect's Float on the zero Value that Elem gives for a nil pointer) or
\* "index_panic" (timestamps[] read out of range).  left and right hold the
\* index each scan selected, per field scanned; reads every index at which
\* timestamps[] was read; sample the returned pointer.
CallRecord(hardwareId, at, outcome, timestamps, averageInterval, atSampleIndex, left, right, reads, sample) ==
    [hardwareId |-> hardwareId, at |-> at, outcome |-> outcome,
     timestamps |-> timestamps, averageInterval |-> averageInterval,
     atSampleIndex |-> atSampleIndex, left |-> left, right |-> right,
     reads |-> reads, sample |-> sample]

NoCall == CallRecord("", 0, "none", EmptyMap, 0, 0, EmptyMap, EmptyMap, {}, {})

\* The loop over the fields of Sample, from the field numbered fieldIndex;
\* acc is the call so far, interpolatedSample the Sample being filled.
RECURSIVE InterpolateFields(_, _, _, _)
InterpolateFields(samples, fieldIndex, interpolatedSample, acc) ==
    IF fieldIndex > NumField
    THEN [acc EXCEPT !.outcome = "ok", !.sample = {interpolatedSample}]
    ELSE
    LET field == Fields[fieldIndex]
        sampleCount == Cardinality(DOMAIN samples)
        l == LeftScan(samples, acc.timestamps, sampleCount, field, acc.atSampleIndex, {})
        r == RightScan(samples, acc.timestamps, sampleCount, field, acc.atSampleIndex, {})
    IN  IF l.outOfRange
        THEN [acc EXCEPT !.outcome = "index_panic", !.reads = @ \cup l.reads]
        ELSE IF r.outOfRange
        THEN [acc EXCEPT !.outcome = "index_panic", !.reads = @ \cup l.reads \cup r.reads,
                         !.left = (field :> l.index) @@ @]
        ELSE
        LET leftTimestamp == acc.timestamps[l.index]
            rightTimestamp == acc.timestamps[r.index]
            leftPointer == samples[leftTimestamp][field]
            rightPointer == samples[rightTimestamp][field]
            scanned == [acc EXCEPT !.reads = @ \cup l.reads \cup r.reads,
                                   !.left = (field :> l.index) @@ @,
                                   !.right = (field :> r.index) @@ @]
        IN  IF IsNil(leftPointer) \/ IsNil(rightPointer)
            THEN [scanned EXCEPT !.outcome = "nil_panic"]
            ELSE InterpolateFields(samples, fieldIndex + 1,
                    [interpolatedSample EXCEPT ![field] =
                        {Blend(acc.at, leftTimestamp, rightTimestamp,
                               Deref(leftPointer), Deref(rightPointer))}],
                    scanned)

InterpolateSample(hardwareId, at) ==
    IF ~HasSamples(hardwareId)
    THEN CallRecord(hardwareId, at, "no_hardware", EmptyMap, 0, 0, EmptyMap, EmptyMap, {}, {})
    ELSE
    LET samples == hardware[hardwareId]
        sampleCount == Cardinality(DOMAIN samples)
        timestamps == SortedTimestamps(hardwareId)
        averageInterval == AverageInterval(timestamps, sampleCount)
    IN  IF DensityRejects(timestamps, sampleCount, averageInterval, at)
        THEN CallRecord(hardwareId, at, "density", timestamps, averageInterval, 0,
                        EmptyMap, EmptyMap, {}, {})
        ELSE InterpolateFields(samples, 1, [EmptySample EXCEPT !.Time = at],
                CallRecord(hardwareId, at, "running", timestamps, averageInterval,
                           Search(timestamps, at, 0, sampleCount),
                           EmptyMap, EmptyMap, {}, {}))

\* ------------------------------------------------------------------ stores
HardwareIds == {"fan1", "fan2"}

\* The Reading a source file holds for a field at a timestamp: distinct for
\* distinct timestamps and fields.
SampleValue(timestamp, field) ==
    (timestamp \div 100) + (CHOOSE i \in 1 .. NumField : Fields[i] = field)

\* The Sample ingestion leaves at a timestamp whose files supplied the
\* fields in present.
StoredSample(timestamp, present) ==
    [Time |-> timestamp,
     Temperature |-> IF "Temperature" \in present
                     THEN {SampleValue(timestamp, "Temperature")} ELSE {},
     PeakVelocityX |-> IF "PeakVelocityX" \in present
                       THEN {SampleValue(timestamp, "PeakVelocityX")} ELSE {}]

\* Every store of one device that a successful PopulateSamples can leave:
\* at least one Sample, each Sample with at least one field set.
DeviceMaps ==
    UNION { { [t \in stamps |-> StoredSample(t, present[t])] :
                present \in [stamps -> (SUBSET FieldSet) \ {{}}] } :
            stamps \in (SUBSET TimeSet) \ {{}} }

\* ---------------------------------------------------------- PopulateSamples
\* The files the walk can meet: one directory per device, and in it a file
\* per channel or a file whose name is no channel's.
FileNames == {"temperature.csv", "peak_velocity_x.csv", "notes.txt"}
Files == HardwareIds \X FileNames

\* CSV fields are strings of characters.
Digits == [c \in {"0", "1", "5", "7", "9"} |->
             CASE c = "0" -> 0 [] c = "1" -> 1 [] c = "5" -> 5 [] c = "7" -> 7 [] c = "9" -> 9]
TimestampFields == {<<"0">>, <<"-", "5">>, <<"1", "x">>}
ValueFields == {<<"7">>, <<"1", "9">>, <<>>}

RECURSIVE DigitsValue(_, _)
DigitsValue(s, acc) ==
    IF s = <<>> THEN acc ELSE DigitsValue(Tail(s), 10 * acc + Digits[Head(s)])

\* strconv.ParseInt(s, 10, 64): an optional sign, then one or more decimal
\* digits and nothing else; anything else is a conversion error.
ParseInt(s) ==
    LET signed == s # <<>> /\ Head(s) \in {"-", "+"}
        body == IF signed THEN Tail(s) ELSE s
    IN  IF body # <<>> /\ \A i \in 1 .. Len(body) : body[i] \in DOMAIN Digits
        THEN [ok |-> TRUE,
              value |-> IF signed /\ Head(s) = "-"
                        THEN 0 - DigitsValue(body, 0) ELSE DigitsValue(body, 0)]
        ELSE [ok |-> FALSE, value |-> 0]

\* strconv.ParseFloat(s, 64) on the fields above, which hold no ".", no
\* exponent and no name of a special value: it accepts the decimal integers.
ParseFloat(s) == ParseInt(s)

WalkRecord(pc, visited, file, rows) ==
    [pc |-> pc, visited |-> visited, file |-> file, rows |-> rows]
NoFile == <<"", "">>
WalkDone == WalkRecord("done", {}, NoFile, 0)

NoRows == [rows |-> {}, duplicate |-> FALSE]

\* hardware with the Sample at (hardwareId, sampleTimestamp) replaced, the
\* device's map made first when it is missing.
WithSample(hw, hardwareId, sampleTimestamp, sample) ==
    LET device == IF hardwareId \in DOMAIN hw THEN hw[hardwareId] ELSE EmptyMap
    IN  (hardwareId :> ((sampleTimestamp :> sample) @@ device)) @@ hw

\* Faulty variant: the Sample is made afresh for every row.
StoreRowFresh(hw, hardwareId, sampleDataName, sampleTimestamp, sampleDataValue) ==
    LET set == SetValueByDataFile([EmptySample EXCEPT !.Time = sampleTimestamp],
                                  sampleDataName, sampleDataValue)
    IN  [ok |-> set.ok, hardware |-> WithSample(hw, hardwareId, sampleTimestamp, set.sample)]

\* The tail of the row loop: look the device and the Sample up, make what is
\* missing, set the field named by the file.
StoreRow(hw, hardwareId, sampleDataName, sampleTimestamp, sampleDataValue) ==
    LET sampleExists == hardwareId \in DOMAIN hw
                        /\ sampleTimestamp \in DOMAIN hw[hardwareId]
        sample == IF sampleExists THEN hw[hardwareId][sampleTimestamp]
                  ELSE [EmptySample EXCEPT !.Time = sampleTimestamp]
        set == SetValueByDataFile(sample, sampleDataName, sampleDataValue)
    IN  [ok |-> set.ok, hardware |-> WithSample(hw, hardwareId, sampleTimestamp, set.sample)]

\* The walk reaches a file it has not visited and opens it.
VisitFile(file) ==
    /\ walk.pc = "walking"
    /\ file \notin walk.visited
    /\ walk' = WalkRecord("reading", walk.visited \cup {file}, file, 0)
    /\ UNCHANGED <<hardware, ingested, call, handler>>

\* os.Open fails: the callback returns the error and PopulateSamples panics.
OpenFails(file) ==
    /\ walk.pc = "walking"
    /\ file \notin walk.visited
    /\ walk' = WalkRecord("panicked", walk.visited \cup {file}, file, 0)
    /\ UNCHANGED <<hardware, ingested, call, handler>>

\* One pass of the row loop on a row the reader returns.
ReadRow(timestampField, valueField) ==
    /\ walk.pc = "reading"
    /\ walk.rows < MaxRows
    /\ LET timestamp == ParseInt(timestampField)
           value == ParseFloat(valueField)
           hardwareId == walk.file[1]
           sampleDataName == walk.file[2]
           stored == StoreRow(hardware, hardwareId, sampleDataName,
                              timestamp.value, value.value)
           key == <<hardwareId, timestamp.value, sampleDataName>>
       IN  IF ~timestamp.ok \/ ~value.ok
           THEN /\ walk' = [walk EXCEPT !.pc = "panicked"]
                /\ UNCHANGED <<hardware, ingested>>
           ELSE /\ hardware' = stored.hardware
                /\ IF stored.ok
                   THEN /\ walk' = [walk EXCEPT !.rows = @ + 1]
                        /\ ingested' =
                             IF ingested.duplicate
                                \/ \E r \in ingested.rows : <<r[1], r[2], r[3]>> = key
                             THEN [rows |-> {}, duplicate |-> TRUE]
                             ELSE [ingested EXCEPT !.rows = @ \cup
                                     {<<hardwareId, timestamp.value, sampleDataName,
                                        value.value>>}]
                   ELSE /\ walk' = [walk EXCEPT !.pc = "panicked"]
                        /\ UNCHANGED ingested
    /\ UNCHANGED <<call, handler>>

\* The reader returns an error other than io.EOF.
ReadFails ==
    /\ walk.pc = "reading"
    /\ walk' = [walk EXCEPT !.pc = "panicked"]
    /\ UNCHANGED <<hardware, ingested, call, handler>>

\* io.EOF: the callback returns nil and the walk goes on.
EndOfFile ==
    /\ walk.pc = "reading"
    /\ walk' = WalkRecord("walking", walk.visited, NoFile, 0)
    /\ UNCHANGED <<hardware, ingested, call, handler>>

\* WalkDir has no more entries: PopulateSamples returns.
WalkEnds ==
    /\ walk.pc = "walking"
    /\ walk' = [walk EXCEPT !.pc = "done"]
    /\ UNCHANGED <<hardware, ingested, call, handler>>

\* ------------------------------------------------------------------ Handle
HandlerRecord(pc, id, from, to, count, timestamp, iterations, queried, tabulatedHardware, status) ==
    [pc |-> pc, id |-> id, from |-> from, to |-> to, count |-> count,
     timestamp |-> timestamp, iterations |-> iterations, queried |-> queried,
     tabulatedHardware |-> tabulatedHardware, status |-> status]
Idle == HandlerRecord("idle", "", 0, 0, 0, 0, 0, <<>>, EmptyMap, "none")

\* timestamp.Format("January _2, 2006 _3:04:05.999PM"): the date and the time
\* of day to the second, then the milliseconds.
Format(timestamp) == <<timestamp \div 1000, timestamp % 1000>>

\* json.Marshal fails on a NaN.
Marshals(tabulatedHardware) ==
    \A label \in DOMAIN tabulatedHardware : \A f \in FieldSet :
        \A v \in tabulatedHardware[label][f] : v.kind # "NaN"

FromSet == {1000, 1500, 4000}
ToSet == {1000, 3000, 4000}

\* A POST to /api/tabulated_hardware whose body parses, up to the loop.
Request(id, from, to, count) ==
    /\ handler.pc = "idle"
    /\ handler' =
         IF ~HasSamples(id)
         THEN HandlerRecord("done", id, from, to, count, from, 0, <<>>, EmptyMap, "500")
         ELSE HandlerRecord("loop", id, from, to, count, from, 0, <<>>, EmptyMap, "none")
    /\ UNCHANGED <<hardware, walk, ingested, call>>

\* One pass of the loop: the body, then the post statement.  Time.Add
\* returns the sum and leaves its receiver alone, and the loop discards
\* what it returns: timestamp keeps its value.  The divisor of the post
\* statement is requestData.Count.
Iterate ==
    /\ handler.pc = "loop"
    /\ handler.timestamp < handler.to
    /\ handler.iterations < MaxIter
    /\ LET c == InterpolateSample(handler.id, handler.timestamp)
           counted == [handler EXCEPT !.iterations = @ + 1,
                                      !.queried = Append(@, handler.timestamp)]
       IN  /\ call' = c
           /\ handler' =
                IF c.outcome \in {"no_hardware", "density"}
                THEN [counted EXCEPT !.pc = "done", !.status = "500"]
                ELSE IF c.outcome # "ok"
                THEN [counted EXCEPT !.pc = "done", !.status = "panic"]
                ELSE LET entered == [counted EXCEPT !.tabulatedHardware =
                            (Format(handler.timestamp) :> Deref(c.sample)) @@ @]
                     IN  IF handler.count = 0
                         THEN [entered EXCEPT !.pc = "done", !.status = "panic"]
                         ELSE entered
    /\ UNCHANGED <<hardware, walk, ingested>>

\* The loop condition is false: marshal and answer.
Respond ==
    /\ handler.pc = "loop"
    /\ ~(handler.timestamp < handler.to)
    /\ handler' = [handler EXCEPT !.pc = "done",
                      !.status = IF Marshals(handler.tabulatedHardware)
                                 THEN "200" ELSE "500"]
    /\ UNCHANGED <<hardware, walk, ingested, call>>

\* ----------------------------------------------------------- specifications
\* InterpolateSample called on a populated store.  A call changes nothing
\* a later call reads, so one call is followed per behaviour.
Interpolate(hardwareId, at) ==
    /\ call = NoCall
    /\ call' = InterpolateSample(hardwareId, at)
    /\ UNCHANGED <<hardware, walk, ingested, handler>>

Populated ==
    /\ hardware \in {("fan1" :> m) : m \in DeviceMaps}
    /\ walk = WalkDone
    /\ ingested = NoRows
    /\ call = NoCall
    /\ handler = Idle

Init == Populated
Next == \E hardwareId \in HardwareIds, at \in AtSet : Interpolate(hardwareId, at)
Spec == Init /\ [][Next]_vars

\* PopulateSamples from its first statement on.
InitPopulate ==
    /\ hardware = EmptyMap
    /\ walk = WalkRecord("walking", {}, NoFile, 0)
    /\ ingested = NoRows
    /\ call = NoCall
    /\ handler = Idle
NextPopulate ==
    \/ \E file \in Files : VisitFile(file)
    \/ \E file \in Files : OpenFails(file)
    \/ \E t \in TimestampFields, v \in ValueFields : ReadRow(t, v)
    \/ ReadFails
    \/ EndOfFile
    \/ WalkEnds
SpecPopulate == InitPopulate /\ [][NextPopulate]_vars

\* Handle serving one tabulation request on a populated store.
NextHandle ==
    \/ \E id \in HardwareIds, from \in FromSet, to \in ToSet, count \in 0 .. MaxCount :
            Request(id, from, to, count)
    \/ Iterate
    \/ Respond
SpecHandle == Populated /\ [][NextHandle]_vars

\* ------------------------------------------------------------------ claims
\* What the claims speak of, for the last InterpolateSample call.
Called == call.outcome \notin {"none", "no_hardware"}
PassedDensity == Called /\ call.outcome # "density"
ReturnsError == call.outcome \in {"no_hardware", "density"}
Stamps == DOMAIN hardware[call.hardwareId]
StampCount == Cardinality(Stamps)
FirstStamp == CHOOSE t \in Stamps : \A u \in Stamps : t <= u
LastStamp == CHOOSE t \in Stamps : \A u \in Stamps : t >= u
Concrete(t, field) == ~IsNil(hardware[call.hardwareId][t][field])
Fan1Stamps == {0, 1000, 2000, 3000, 4000}

\* C2: for a known device with distinct timestamps t[0] < ... < t[n-1] and
\* avg = (t[n-1] - t[0]) / n truncated, the query is rejected with the
\* density error if and only if queryTime < t[0] + avg or
\* queryTime > t[n-1] - avg.
C2_DensityBound ==
    Called =>
        LET avg == (LastStamp - FirstStamp) \div StampCount
        IN  (call.outcome = "density")
            <=> (call.at < FirstStamp + avg \/ call.at > LastStamp - avg)

\* Samples at 0, 1000, ..., 4000: avg is 800 and the query at 700 is rejected.
C2_Witness ==
    /\ Called
    /\ Stamps = Fan1Stamps
    /\ call.averageInterval = 800
    /\ call.at = 700
    /\ call.outcome = "density"

\* C3 as stated: with exactly one stored sample every query is rejected with
\* the density error.
C3_SingleSampleAlwaysRejected ==
    (Called /\ StampCount = 1) => call.outcome = "density"

\* C3 as amended: with exactly one stored sample, at t0, a query is rejected
\* with the density error if and only if its timestamp is not t0.
C3_SingleSampleRejectedUnlessEqual ==
    (Called /\ StampCount = 1) =>
        ((call.outcome = "density") <=> (call.at # FirstStamp))

\* One stored sample, queried at its own timestamp: the check lets it pass.
C3_Witness ==
    /\ Called
    /\ StampCount = 1
    /\ call.at = FirstStamp
    /\ call.outcome = "ok"

\* C4: for a device with three or more samples, a query at a stored
\* timestamp t[i] that passes the density check and returns a Sample gives,
\* for every field the stored Sample at t[i] has a Reading for, that Reading:
\* both scans select i and the value is the Reading blended with itself
\* alone, at a finite weight.
C4_StoredTimestampUnchanged ==
    (call.outcome = "ok" /\ StampCount >= 3 /\ call.at \in Stamps) =>
        \A field \in FieldSet :
            Concrete(call.at, field) =>
                LET reading == Deref(hardware[call.hardwareId][call.at][field])
                    value == Deref(Deref(call.sample)[field])
                IN  /\ call.timestamps[call.left[field]] = call.at
                    /\ call.timestamps[call.right[field]] = call.at
                    /\ value.kind = "blend"
                    /\ value.left = reading
                    /\ value.right = reading

\* C5: when a field has no Reading at all for the device, the call ends with
\* an error returned to the caller.
C5_ChannelUnavailableIsAnError ==
    (Called /\ \E field \in FieldSet : \A t \in Stamps : ~Concrete(t, field))
        => ReturnsError

\* C8: for every field of a returned Sample the two samples blended bracket
\* the query, each the nearest one with a Reading for the field.
C8_Bracketing ==
    call.outcome = "ok" =>
        \A field \in FieldSet :
            LET leftTime == call.timestamps[call.left[field]]
                rightTime == call.timestamps[call.right[field]]
            IN  /\ leftTime <= call.at
                /\ rightTime >= call.at
                /\ \A t \in Stamps :
                     (Concrete(t, field) /\ t <= call.at) => t <= leftTime
                /\ \A t \in Stamps :
                     (Concrete(t, field) /\ t >= call.at) => t >= rightTime

\* C9: for each field the backward scan selects the largest index at or
\* below the anchor whose Sample has a Reading for the field, and index 0 if
\* there is none.
C9_BackwardScan ==
    PassedDensity =>
        \A field \in DOMAIN call.left :
            LET candidates == {j \in 0 .. call.atSampleIndex :
                                 Concrete(call.timestamps[j], field)}
            IN  call.left[field] =
                    IF candidates = {} THEN 0
                    ELSE CHOOSE j \in candidates : \A k \in candidates : j >= k

\* C10: for a query that passes the density check the anchor index lies in
\* [0, n-1] and so does every index at which the scans read timestamps[].
C10_IndexSafety ==
    PassedDensity =>
        /\ call.atSampleIndex \in 0 .. StampCount - 1
        /\ call.reads \subseteq 0 .. StampCount - 1
        /\ call.outcome # "index_panic"

\* Both scans of a field leave the anchor, whose Sample has no Reading for it.
C10_Witness ==
    /\ call.outcome = "ok"
    /\ \E field \in FieldSet :
         /\ call.left[field] < call.atSampleIndex
         /\ call.right[field] > call.atSampleIndex
         /\ Cardinality(call.reads) >= 3

\* The store that a set of rows describes, whatever their order.
StoreOf(rows) ==
    [id \in {r[1] : r \in rows} |->
        [t \in {r[2] : r \in {q \in rows : q[1] = id}} |->
            [Time |-> t,
             Temperature |->
                {r[4] : r \in {q \in rows : q[1] = id /\ q[2] = t
                                            /\ q[3] = FileTag["Temperature"]}},
             PeakVelocityX |->
                {r[4] : r \in {q \in rows : q[1] = id /\ q[2] = t
                                            /\ q[3] = FileTag["PeakVelocityX"]}}]]]

\* C7: as long as no (device, timestamp, channel) triplet has come twice, the
\* store is the one the set of rows read so far describes, whatever the order
\* of the files and of the rows: one Sample per device and timestamp, holding
\* the Reading of each channel that has a row there and nothing else.
C7_OrderIndependent ==
    (walk.pc # "panicked" /\ ~ingested.duplicate) => hardware = StoreOf(ingested.rows)

\* Two files of one device each gave a row at one timestamp.
C7_Witness ==
    /\ walk.pc = "done"
    /\ ~ingested.duplicate
    /\ \E id \in DOMAIN hardware : \E t \in DOMAIN hardware[id] :
         /\ ~IsNil(hardware[id][t].Temperature)
         /\ ~IsNil(hardware[id][t].PeakVelocityX)
         /\ Cardinality(DOMAIN hardware[id]) = 1

\* C6: after PopulateSamples has failed the store holds no device and no
\* sample.
C6_NoPartialStore ==
    walk.pc = "panicked" => (DOMAIN hardware = {} /\ SampleCount = 0)

\* C1: with from < to, count >= 1 and every interpolation succeeding, the
\* loop makes exactly count passes, the k-th (from 0) querying
\* from + k * step with step = (to - from) / count.
C1_Tabulation ==
    (/\ handler.pc \in {"loop", "done"}
     /\ handler.from < handler.to
     /\ handler.count >= 1
     /\ handler.status \in {"none", "200"}) =>
        LET step == (handler.to - handler.from) \div handler.count
        IN  /\ handler.iterations <= handler.count
            /\ \A k \in 1 .. Len(handler.queried) :
                 handler.queried[k] = handler.from + (k - 1) * step
            /\ handler.pc = "done" => handler.iterations = handler.count
====
